---- MODULE Spec2Model ----
(***************************************************************************)
(* Model of the RAG relay server (src/unnamed/part_000): a WebSocket relay *)
(* between a browser client and the realtime speech provider, with the     *)
(* turn interceptor, the webhook RAG toggle and the retrieval orchestrator *)
(* performRAGProcess.  The plain relay of src/index.js is modelled by the  *)
(* operator PlainRelay for comparison.                                     *)
(***************************************************************************)
EXTENDS Naturals, Sequences, FiniteSets, TLC

\* ---------------------------------------------------------------- bounds
MaxConns == 2      \* client sockets ever accepted
MaxProv  == 4      \* provider events delivered in total
MaxCli   == 1      \* client messages received in total
MaxHook  == 2      \* webhook chat messages received in total
MaxRuns  == 2      \* performRAGProcess invocations in total

\* the inputs of a behaviour with two turns on one socket
TwoTurnConns == 1  \* client sockets
TwoTurnProv  == 6  \* provider events: twice speech-started, delta, transcript-done
TwoTurnCli   == 1  \* client messages
TwoTurnHook  == 3  \* webhook chat messages: rag on, rag off, rag on

Conns == 1..MaxConns

\* ---------------------------------------------------------------- strings
\* A string is a sequence of characters; " " is the only whitespace used.
Empty == <<>>

RECURSIVE TrimLeft(_)
TrimLeft(s) == IF s = <<>> THEN <<>>
               ELSE IF Head(s) = " " THEN TrimLeft(Tail(s)) ELSE s

RECURSIVE TrimRight(_)
TrimRight(s) == IF s = <<>> THEN <<>>
                ELSE IF s[Len(s)] = " " THEN TrimRight(SubSeq(s, 1, Len(s) - 1)) ELSE s

\* String.prototype.trim
Trim(s) == TrimRight(TrimLeft(s))

\* fixed utterances of performRAGProcess
NoResultsText == "I couldn't find specific information for that in my documents. How else can I assist you?"
ErrorText == "I encountered an issue while trying to access my knowledge base. Please try again or ask something else."

\* ---------------------------------------------------------------- events
SpeechStarted == "input_audio_buffer.speech_started"
SpeechStopped == "input_audio_buffer.speech_stopped"
TranscriptDelta == "response.audio_transcript.delta"
TranscriptDone == "response.audio_transcript.done"
ResponseCreated == "response.created"
ItemCreated == "conversation.item.created"
ResponseCreate == "response.create"
ItemCreate == "conversation.item.create"
AudioAppend == "input_audio_buffer.append"

\* event.type.startsWith('response.')
StartsWithResponse(t) == t \in {TranscriptDelta, TranscriptDone, ResponseCreated, ResponseCreate}

Payloads == {<<>>, <<"a">>, <<" ">>}

\* provider events: [type, role (event.item?.role), text (event.text)]
ProviderEvents ==
    {[type |-> t, role |-> "none", text |-> Empty] :
        t \in {SpeechStarted, SpeechStopped, TranscriptDone, ResponseCreated}}
    \cup {[type |-> TranscriptDelta, role |-> "none", text |-> p] : p \in Payloads}
    \cup {[type |-> ItemCreated, role |-> r, text |-> Empty] : r \in {"assistant", "user"}}

NoEvent == [type |-> "none", role |-> "none", text |-> Empty]

\* JSON.stringify(event): the frame handed to ws.send
Stringify(e) == [json |-> e]

\* raw client frames: JSON text of an object with a type, or text that does not parse
ClientTypes == {ResponseCreate, AudioAppend}
RawFrames == {[parses |-> TRUE, type |-> t] : t \in ClientTypes}
             \cup {[parses |-> FALSE, type |-> "garbage"]}
\* the n-th frame received; the number tells equal frames apart
RawData(f, n) == [parses |-> f.parses, type |-> f.type, seq |-> n]

\* JSON.parse(data): throws on text that is no JSON
JSONParse(d) == IF d.parses THEN [threw |-> FALSE, event |-> [type |-> d.type, seq |-> d.seq]]
                ELSE [threw |-> TRUE, event |-> [type |-> "none", seq |-> 0]]

\* what reaches the provider: who sent it, its type, its text, the client
\* message number or the orchestrator run it belongs to
Cmd(src, t, txt, id) == [src |-> src, type |-> t, text |-> txt, id |-> id]

VARIABLES
    wsConnections,        \* Set of tracked client sockets
    connectionStates,     \* Map socket -> {ragMode}; Absent when deleted
    isProcessingRAG,
    userTranscriptForRAG,
    isRAGActiveThisTurn,
    wsState,              \* client socket: "none", "open", "closing", "closed"
    sess,                 \* RealtimeClient: "none", "connecting" (the connection handler
                          \* awaits client.connect()), "connected", "failed", "disconnected"
    messageQueue,         \* per socket, raw frames received before the session is connected
    upstream,             \* per socket, commands written to the provider, in order
    runs,                 \* performRAGProcess invocations
    crashed,              \* an exception reached the event loop uncaught
    ev,                   \* the latest step: its input, the frames it wrote to the
                          \* client, the raw frames it passed to messageHandler
    scen,                 \* the provider sequence speech-started, delta, ..., delta
                          \* (, transcript-done) that the latest events form
    nProv, nCli, nHook,   \* inputs received so far
    lim                   \* the inputs a behaviour may receive: sockets, provider
                          \* events, client messages, webhooks, orchestrator runs

vars == <<wsConnections, connectionStates, isProcessingRAG, userTranscriptForRAG,
          isRAGActiveThisTurn, wsState, sess, messageQueue, upstream,
          runs, crashed, ev, scen, nProv, nCli, nHook, lim>>

connVars == <<wsConnections, connectionStates, wsState, sess>>
turnVars == <<isProcessingRAG, userTranscriptForRAG, isRAGActiveThisTurn>>
countVars == <<nProv, nCli, nHook, lim>>

NoFrame == <<>>
NoEv == [kind |-> "init", conn |-> 0, event |-> NoEvent, handled |-> <<>>, run |-> 0,
         frames |-> NoFrame]
Ev(k, c, r) == [kind |-> k, conn |-> c, event |-> NoEvent, handled |-> <<>>, run |-> r,
                frames |-> NoFrame]
\* a server.* step and the frames its ws.send calls wrote
EvServer(c, e, fs) == [kind |-> "server", conn |-> c, event |-> e, handled |-> <<>>,
                       run |-> 0, frames |-> fs]
\* a step of the client side and the raw frames it passed to messageHandler
EvClient(k, c, q) == [kind |-> k, conn |-> c, event |-> NoEvent, handled |-> q, run |-> 0,
                      frames |-> NoFrame]

NoScen == [conn |-> 0, deltas |-> <<>>, done |-> FALSE]

\* connectionStates.get(ws): undefined, or the state object {ragMode}
Absent == [present |-> FALSE, ragMode |-> FALSE]
State(b) == [present |-> TRUE, ragMode |-> b]

Init ==
    /\ wsConnections = {}
    /\ connectionStates = [c \in Conns |-> Absent]
    /\ isProcessingRAG = FALSE
    /\ userTranscriptForRAG = Empty
    /\ isRAGActiveThisTurn = FALSE
    /\ wsState = [c \in Conns |-> "none"]
    /\ sess = [c \in Conns |-> "none"]
    /\ messageQueue = [c \in Conns |-> <<>>]
    /\ upstream = [c \in Conns |-> <<>>]
    /\ runs = <<>>
    /\ crashed = FALSE
    /\ ev = NoEv
    /\ scen = NoScen
    /\ nProv = 0
    /\ nCli = 0
    /\ nHook = 0
    /\ lim = [conns |-> MaxConns, prov |-> MaxProv, cli |-> MaxCli, hook |-> MaxHook,
              runs |-> MaxRuns]

\* ---------------------------------------------------------------- library
\* client.isConnected()
isConnected(c) == sess[c] = "connected"

\* client.realtime.send(type, event) on a session in state s writing to log up:
\* throws when the session is not connected
RealtimeSend(s, up, cmd) ==
    IF s = "connected" THEN [threw |-> FALSE, up |-> Append(up, cmd)]
    ELSE [threw |-> TRUE, up |-> up]

\* ws.send(frame): the frames that reach the client; a socket that is closing
\* or closed discards the frame
WsSend(st, frame) == IF st = "open" THEN <<frame>> ELSE <<>>

\* a ws.close() that was left out
WsCloseCallMissing(st) == st

\* ws.close(): starts the closing handshake of an open socket
WsCloseCall(st) == IF st = "open" THEN "closing" ELSE st

\* ---------------------------------------------------------------- client -> provider
\* messageHandler with a test that forgets the armed turn
messageHandlerProcessingOnly(s, up, data) ==
    LET parsed == JSONParse(data) IN
    IF parsed.threw THEN up
    ELSE IF isProcessingRAG /\ parsed.event.type = ResponseCreate
         THEN up
         ELSE RealtimeSend(s, up, Cmd("client", parsed.event.type, "", parsed.event.seq)).up

\* messageHandler(data) on a session in state s: the provider log afterwards.
\* Parse errors and send errors are caught and the frame is dropped.
messageHandler(s, up, data) ==
    LET parsed == JSONParse(data) IN
    IF parsed.threw THEN up
    ELSE IF (isRAGActiveThisTurn \/ isProcessingRAG) /\ parsed.event.type = ResponseCreate
         THEN up
         ELSE RealtimeSend(s, up, Cmd("client", parsed.event.type, "", parsed.event.seq)).up

\* while (messageQueue.length) messageHandler(messageQueue.shift())
RECURSIVE Replay(_, _, _)
Replay(s, up, q) ==
    IF q = <<>> THEN up ELSE Replay(s, messageHandler(s, up, Head(q)), Tail(q))

\* wss.on("connection"), up to the await of client.connect()
Connection(c) ==
    /\ ~crashed
    /\ wsState[c] = "none"
    /\ c <= lim.conns
    /\ \A d \in Conns : d < c => wsState[d] # "none"
    /\ wsConnections' = wsConnections \cup {c}
    /\ connectionStates' = [connectionStates EXCEPT ![c] = State(FALSE)]
    /\ wsState' = [wsState EXCEPT ![c] = "open"]
    /\ sess' = [sess EXCEPT ![c] = "connecting"]
    /\ ev' = Ev("connection", c, 0)
    /\ UNCHANGED <<turnVars, messageQueue, upstream, runs, crashed, scen, countVars>>

\* client.connect() resolved: the queue is replayed
ConnectResolved(c) ==
    /\ ~crashed
    /\ sess[c] = "connecting"
    /\ sess' = [sess EXCEPT ![c] = "connected"]
    /\ upstream' = [upstream EXCEPT ![c] = Replay("connected", upstream[c], messageQueue[c])]
    /\ messageQueue' = [messageQueue EXCEPT ![c] = <<>>]
    /\ ev' = EvClient("connected", c, messageQueue[c])
    /\ UNCHANGED <<wsConnections, connectionStates, turnVars, wsState, runs,
                   crashed, scen, countVars>>

\* client.connect() rejected: ws.close(); return
ConnectRejected(c) ==
    /\ ~crashed
    /\ sess[c] = "connecting"
    /\ sess' = [sess EXCEPT ![c] = "failed"]
    /\ wsState' = [wsState EXCEPT ![c] = WsCloseCall(wsState[c])]
    /\ ev' = Ev("connectFailed", c, 0)
    /\ UNCHANGED <<wsConnections, connectionStates, turnVars, messageQueue, upstream,
                   runs, crashed, scen, countVars>>

\* ws.on("message"): a socket delivers frames until its close event, also
\* after ws.close() started the closing handshake
WsMessage(c, f) ==
    /\ ~crashed
    /\ wsState[c] \in {"open", "closing"}
    /\ nCli < lim.cli
    /\ nCli' = nCli + 1
    /\ LET data == RawData(f, nCli + 1) IN
       IF ~isConnected(c)
       THEN /\ messageQueue' = [messageQueue EXCEPT ![c] = Append(@, data)]
            /\ ev' = EvClient("message", c, <<>>)
            /\ UNCHANGED upstream
       ELSE /\ upstream' = [upstream EXCEPT ![c] = messageHandler(sess[c], @, data)]
            /\ ev' = EvClient("message", c, <<data>>)
            /\ UNCHANGED messageQueue
    /\ UNCHANGED <<connVars, turnVars, runs, crashed, scen, nProv, nHook, lim>>

\* client.disconnect(): closes a connected session; a session whose handshake
\* is still pending is left alone (the library only closes an open socket)
Disconnect(s) == IF s = "connected" THEN "disconnected" ELSE s

\* ws.on("close"): the client went away, or the closing handshake that
\* ws.close() started has finished
WsClose(c) ==
    /\ ~crashed
    /\ wsState[c] \in {"open", "closing"}
    /\ wsState' = [wsState EXCEPT ![c] = "closed"]
    /\ wsConnections' = wsConnections \ {c}
    /\ connectionStates' = [connectionStates EXCEPT ![c] = Absent]
    /\ sess' = [sess EXCEPT ![c] = Disconnect(sess[c])]
    /\ ev' = Ev("wsClose", c, 0)
    /\ UNCHANGED <<turnVars, messageQueue, upstream, runs, crashed,
                   scen, countVars>>

\* client.realtime.on("close", () => ws.close())
ProviderClose(c) ==
    /\ ~crashed
    /\ sess[c] = "connected"
    /\ sess' = [sess EXCEPT ![c] = "disconnected"]
    /\ wsState' = [wsState EXCEPT ![c] = WsCloseCall(wsState[c])]
    /\ ev' = Ev("providerClose", c, 0)
    /\ UNCHANGED <<wsConnections, connectionStates, turnVars, messageQueue,
                   upstream, runs, crashed, scen, countVars>>

\* ---------------------------------------------------------------- provider -> client
\* a blocking test that forgets the assistant's conversation items
BlockedResponsesOnly(proc, e) == proc /\ StartsWithResponse(e.type)

\* the blocking test at the head of the server.* handler
Blocked(proc, e) ==
    proc /\ (StartsWithResponse(e.type) \/ (e.type = ItemCreated /\ e.role = "assistant"))

\* a speech_started branch that arms the turn whatever isProcessingRAG is
OnSpeechStartedWhileProcessing(st, proc, buf, armed, e) ==
    IF e.type = SpeechStarted
    THEN [buf |-> Empty, armed |-> (st.present /\ st.ragMode = TRUE)]
    ELSE [buf |-> buf, armed |-> armed]

\* the speech_started branch: [buf, armed] afterwards
OnSpeechStarted(st, proc, buf, armed, e) ==
    IF e.type = SpeechStarted
    THEN [buf |-> Empty, armed |-> (st.present /\ st.ragMode = TRUE /\ ~proc)]
    ELSE [buf |-> buf, armed |-> armed]

\* a delta branch that puts the fragment in front of the buffer
OnDeltaPrepend(buf, armed, e) ==
    IF armed /\ e.type = TranscriptDelta /\ e.text # Empty THEN e.text \o buf ELSE buf

\* the transcript delta branch: the buffer afterwards
OnDelta(buf, armed, e) ==
    IF armed /\ e.type = TranscriptDelta /\ e.text # Empty THEN buf \o e.text ELSE buf

\* a trigger test that leaves out the trim
TriggersUntrimmed(buf, armed, e) == armed /\ e.type = TranscriptDone /\ buf # Empty

\* the transcript done branch: does it trigger performRAGProcess
Triggers(buf, armed, e) == armed /\ e.type = TranscriptDone /\ Trim(buf) # Empty

\* a run of performRAGProcess suspended in performRAGSearch
\* (search, completion, content: how its calls settled; live: was the session
\* connected at each send; detached: did rag off reset the turn meanwhile)
NewRun(c, q) == [conn |-> c, query |-> q, pc |-> "search", search |-> "pending",
                 completion |-> "pending", content |-> "", rejected |-> FALSE,
                 live |-> <<>>, detached |-> FALSE]

\* the sequence speech-started (ragMode on, not processing), delta, ...,
\* delta, transcript-done that the events up to e form on socket c, if any
NextScen(c, e) ==
    IF e.type = SpeechStarted /\ connectionStates[c].ragMode /\ ~isProcessingRAG
    THEN [conn |-> c, deltas |-> <<>>, done |-> FALSE]
    ELSE IF scen.conn = c /\ ~scen.done /\ e.type = TranscriptDelta
         THEN [scen EXCEPT !.deltas = Append(@, e.text)]
         ELSE IF scen.conn = c /\ ~scen.done /\ e.type = TranscriptDone
              THEN [scen EXCEPT !.done = TRUE]
              ELSE NoScen

\* client.realtime.on("server.*")
ServerEvent(c, e) ==
    /\ ~crashed
    /\ sess[c] = "connected"
    /\ nProv < lim.prov
    /\ nProv' = nProv + 1
    /\ scen' = NextScen(c, e)
    /\ IF Blocked(isProcessingRAG, e)
       THEN /\ ev' = EvServer(c, e, NoFrame)
            /\ UNCHANGED <<turnVars, runs>>
       ELSE LET s1 == OnSpeechStarted(connectionStates[c], isProcessingRAG,
                                      userTranscriptForRAG, isRAGActiveThisTurn, e)
                buf == OnDelta(s1.buf, s1.armed, e)
                isDone == s1.armed /\ e.type = TranscriptDone
                trig == Triggers(buf, s1.armed, e)
                shouldRelayEvent == ~trig
            IN /\ trig => Len(runs) < lim.runs
               /\ userTranscriptForRAG' = buf
               /\ isRAGActiveThisTurn' = IF isDone THEN FALSE ELSE s1.armed
               /\ isProcessingRAG' = IF isDone THEN trig ELSE isProcessingRAG
               /\ runs' = IF trig THEN Append(runs, NewRun(c, Trim(buf))) ELSE runs
               /\ LET out == IF shouldRelayEvent THEN WsSend(wsState[c], Stringify(e))
                                 ELSE NoFrame
                  IN ev' = EvServer(c, e, out)
    /\ UNCHANGED <<connVars, messageQueue, upstream, crashed, nCli, nHook, lim>>

\* the relay of src/index.js: every event is sent to the client
PlainRelay(st, e) == WsSend(st, Stringify(e))

\* ---------------------------------------------------------------- webhook
\* chat texts, by the commands text.toLowerCase() includes
HookTexts == {[on |-> TRUE, off |-> FALSE, test |-> FALSE],
              [on |-> FALSE, off |-> TRUE, test |-> FALSE],
              [on |-> TRUE, off |-> TRUE, test |-> FALSE],
              [on |-> FALSE, off |-> FALSE, test |-> TRUE]}

\* the command the if / else-if chain selects
HookCommand(text) == IF text.on THEN "on"
                     ELSE IF text.off THEN "off"
                     ELSE IF text.test THEN "test" ELSE "none"

\* wsConnections.forEach(ws => { state.ragMode = b })
SetRagMode(b) == [c \in Conns |-> IF c \in wsConnections /\ connectionStates[c].present
                                  THEN State(b) ELSE connectionStates[c]]

\* the reset inside the rag off loop runs once a tracked socket is visited
RagOffResets == wsConnections # {} /\ (isRAGActiveThisTurn \/ isProcessingRAG)

\* the runs in flight lose the turn they were started for
Detach(rs) == [i \in DOMAIN rs |-> IF rs[i].pc # "done"
                                   THEN [rs[i] EXCEPT !.detached = TRUE] ELSE rs[i]]

\* app.post('/webhook') with a chat message
Webhook(text) ==
    /\ ~crashed
    /\ nHook < lim.hook
    /\ nHook' = nHook + 1
    /\ ev' = Ev(HookCommand(text), 0, 0)
    /\ CASE HookCommand(text) = "on" ->
              /\ connectionStates' = SetRagMode(TRUE)
              /\ UNCHANGED turnVars
              /\ UNCHANGED runs
         [] HookCommand(text) = "off" ->
              /\ connectionStates' = SetRagMode(FALSE)
              /\ IF RagOffResets
                 THEN /\ isRAGActiveThisTurn' = FALSE
                      /\ isProcessingRAG' = FALSE
                      /\ userTranscriptForRAG' = Empty
                      /\ runs' = Detach(runs)
                 ELSE UNCHANGED <<turnVars, runs>>
         [] OTHER -> UNCHANGED <<connectionStates, turnVars, runs>>
    /\ UNCHANGED <<wsConnections, wsState, sess, messageQueue, upstream,
                   crashed, scen, nProv, nCli, lim>>

\* ---------------------------------------------------------------- orchestrator
TopDocs == 2

\* how searchClient.search settles: it throws, or yields n documents
SearchOutcomes == {[threw |-> TRUE, n |-> 0]} \cup {[threw |-> FALSE, n |-> k] : k \in 0..TopDocs}

\* performRAGSearch: the number of documents returned; an error yields none
performRAGSearch(out) == IF out.threw THEN 0 ELSE out.n

\* how the completion call settles: fetch rejects, the status is not ok, the
\* choice list is empty, choices[0] has no message, or an answer arrives
Answers == {"answer", ""}
CompletionOutcomes ==
    {[kind |-> k, content |-> ""] : k \in {"reject", "notok", "nochoices", "malformed"}}
    \cup {[kind |-> "ok", content |-> a] : a \in Answers}

\* a catch block that sends the error utterance outside any try
CatchBlockRethrow(s, up, r) ==
    LET res == RealtimeSend(s, up, Cmd("rag", ItemCreate, ErrorText, r)) IN
    [up |-> res.up, timer |-> ~res.threw, rejected |-> res.threw]

\* the catch block of performRAGProcess: the error utterance is sent inside
\* its own try/catch, so nothing is rethrown
CatchBlock(s, up, r) ==
    LET res == RealtimeSend(s, up, Cmd("rag", ItemCreate, ErrorText, r)) IN
    [up |-> res.up, timer |-> ~res.threw, rejected |-> FALSE]

\* an injection that never schedules response.create
InjectNoTimer(s, up, r, text) ==
    LET res == RealtimeSend(s, up, Cmd("rag", ItemCreate, text, r)) IN
    [up |-> res.up, timer |-> FALSE, rejected |-> FALSE]

\* an injection that asks for the response first and sets no timer
InjectResponseFirst(s, up, r, text) ==
    LET res == RealtimeSend(s, up, Cmd("rag", ResponseCreate, "", r)) IN
    IF res.threw THEN CatchBlock(s, up, r)
    ELSE [up |-> Append(res.up, Cmd("rag", ItemCreate, text, r)), timer |-> FALSE,
          rejected |-> FALSE]

\* the injection inside the try block: conversation.item.create now,
\* response.create on a timer; a throwing send lands in the catch block
Inject(s, up, r, text) ==
    LET res == RealtimeSend(s, up, Cmd("rag", ItemCreate, text, r)) IN
    IF res.threw THEN CatchBlock(s, up, r)
    ELSE [up |-> res.up, timer |-> TRUE, rejected |-> FALSE]

\* a try block with the test of the completion's outcome inverted
AfterCompletionInverted(s, up, r, out) ==
    IF out.kind # "ok" THEN Inject(s, up, r, out.content) ELSE CatchBlock(s, up, r)

\* the try block after the completion call settled
AfterCompletion(s, up, r, out) ==
    IF out.kind = "ok" THEN Inject(s, up, r, out.content) ELSE CatchBlock(s, up, r)

\* an exit path that leaves the flag as it was
UnblockSkipped(proc) == proc

\* isProcessingRAG = false, the statement that precedes the sends of every
\* exit path: the flag afterwards
Unblock(proc) == FALSE

\* the run after its injection attempt
Injected(run, inj, s) == [run EXCEPT !.pc = IF inj.timer THEN "timer" ELSE "done",
                                     !.rejected = inj.rejected,
                                     !.live = <<s = "connected">>]

\* performRAGProcess resumes when performRAGSearch settles
SearchSettles(r, out) ==
    /\ ~crashed
    /\ r \in DOMAIN runs
    /\ runs[r].pc = "search"
    /\ ev' = Ev("search", runs[r].conn, r)
    /\ LET c == runs[r].conn
           cls == IF out.threw THEN "failed"
                  ELSE IF out.n = 0 THEN "empty" ELSE "found"
           run == [runs[r] EXCEPT !.search = cls]
       IN IF performRAGSearch(out) = 0
          THEN LET inj == Inject(sess[c], upstream[c], r, NoResultsText) IN
               /\ isProcessingRAG' = Unblock(isProcessingRAG)
               /\ upstream' = [upstream EXCEPT ![c] = inj.up]
               /\ runs' = [runs EXCEPT ![r] = Injected(run, inj, sess[c])]
          ELSE /\ runs' = [runs EXCEPT ![r] = [run EXCEPT !.pc = "complete"]]
               /\ UNCHANGED <<isProcessingRAG, upstream>>
    /\ UNCHANGED <<connVars, userTranscriptForRAG, isRAGActiveThisTurn, messageQueue,
                   crashed, scen, countVars>>

\* performRAGProcess resumes when the completion call settles
CompletionSettles(r, out) ==
    /\ ~crashed
    /\ r \in DOMAIN runs
    /\ runs[r].pc = "complete"
    /\ ev' = Ev("completion", runs[r].conn, r)
    /\ LET c == runs[r].conn
           run == [runs[r] EXCEPT !.completion = out.kind, !.content = out.content]
           inj == AfterCompletion(sess[c], upstream[c], r, out)
       IN /\ isProcessingRAG' = Unblock(isProcessingRAG)
          /\ upstream' = [upstream EXCEPT ![c] = inj.up]
          /\ runs' = [runs EXCEPT ![r] = Injected(run, inj, sess[c])]
    /\ UNCHANGED <<connVars, userTranscriptForRAG, isRAGActiveThisTurn, messageQueue,
                   crashed, scen, countVars>>

\* the setTimeout callback: response.create; a throw here is caught by nobody
TimerFires(r) ==
    /\ ~crashed
    /\ r \in DOMAIN runs
    /\ runs[r].pc = "timer"
    /\ ev' = Ev("timer", runs[r].conn, r)
    /\ LET c == runs[r].conn
           res == RealtimeSend(sess[c], upstream[c], Cmd("rag", ResponseCreate, "", r))
       IN /\ upstream' = [upstream EXCEPT ![c] = res.up]
          /\ crashed' = res.threw
    /\ runs' = [runs EXCEPT ![r].pc = "done",
                            ![r].live = Append(@, sess[runs[r].conn] = "connected")]
    /\ UNCHANGED <<connVars, turnVars, messageQueue, scen, countVars>>

\* ---------------------------------------------------------------- specification
Next ==
    \/ \E c \in Conns : Connection(c)
    \/ \E c \in Conns : ConnectResolved(c)
    \/ \E c \in Conns : ConnectRejected(c)
    \/ \E c \in Conns : \E f \in RawFrames : WsMessage(c, f)
    \/ \E c \in Conns : WsClose(c)
    \/ \E c \in Conns : ProviderClose(c)
    \/ \E c \in Conns : \E e \in ProviderEvents : ServerEvent(c, e)
    \/ \E t \in HookTexts : Webhook(t)
    \/ \E r \in 1..MaxRuns : \E o \in SearchOutcomes : SearchSettles(r, o)
    \/ \E r \in 1..MaxRuns : \E o \in CompletionOutcomes : CompletionSettles(r, o)
    \/ \E r \in 1..MaxRuns : TimerFires(r)

Spec == Init /\ [][Next]_vars

\* the server from start-up, receiving the inputs of two turns on one socket
InitTwoTurns ==
    /\ wsConnections = {}
    /\ connectionStates = [c \in Conns |-> Absent]
    /\ isProcessingRAG = FALSE
    /\ userTranscriptForRAG = Empty
    /\ isRAGActiveThisTurn = FALSE
    /\ wsState = [c \in Conns |-> "none"]
    /\ sess = [c \in Conns |-> "none"]
    /\ messageQueue = [c \in Conns |-> <<>>]
    /\ upstream = [c \in Conns |-> <<>>]
    /\ runs = <<>>
    /\ crashed = FALSE
    /\ ev = NoEv
    /\ scen = NoScen
    /\ nProv = 0
    /\ nCli = 0
    /\ nHook = 0
    /\ lim = [conns |-> TwoTurnConns, prov |-> TwoTurnProv, cli |-> TwoTurnCli,
              hook |-> TwoTurnHook, runs |-> MaxRuns]

SpecTwoTurns == InitTwoTurns /\ [][Next]_vars

\* the event loop resumes a run whose awaited search or completion call has
\* settled, and runs a timer callback that is due
Fairness ==
    \A r \in 1..MaxRuns :
        /\ WF_vars(\E o \in SearchOutcomes : SearchSettles(r, o))
        /\ WF_vars(\E o \in CompletionOutcomes : CompletionSettles(r, o))
        /\ WF_vars(TimerFires(r))

\* two turns on one socket, every awaited call settling and every timer firing
SpecTwoTurnsFair == InitTwoTurns /\ [][Next]_vars /\ Fairness

\* ---------------------------------------------------------------- properties
\* client-originated response.create commands in a provider log
ClientCreates(up) == SelectSeq(up, LAMBDA m : m.src = "client" /\ m.type = ResponseCreate)

\* what a step appended to the provider log of socket c
NewCmds(c) == SubSeq(upstream'[c], Len(upstream[c]) + 1, Len(upstream'[c]))

\* conversation.item.create / response.create commands of orchestrator run r
Items(r) == SelectSeq(upstream[runs[r].conn],
                      LAMBDA m : m.src = "rag" /\ m.id = r /\ m.type = ItemCreate)
Creates(r) == SelectSeq(upstream[runs[r].conn],
                        LAMBDA m : m.src = "rag" /\ m.id = r /\ m.type = ResponseCreate)

RECURSIVE Concat(_)
Concat(ds) == IF ds = <<>> THEN <<>> ELSE Head(ds) \o Concat(Tail(ds))

\* C1: while a socket's ragMode is false, a provider event on that socket is
\* relayed to its client exactly as the plain relay does and arms or starts
\* nothing.
C1_RagOffIsPlainRelay ==
    [][(ev'.kind = "server" /\ ~connectionStates[ev'.conn].ragMode)
        => /\ ev'.frames = PlainRelay(wsState[ev'.conn], ev'.event)
           /\ isRAGActiveThisTurn' => isRAGActiveThisTurn
           /\ isProcessingRAG' => isProcessingRAG
           /\ runs' = runs]_vars

\* the response-construction events: a type that starts with "response.", or
\* an item created with the assistant role
ResponseConstruction(e) ==
    \/ e.type \in {TranscriptDelta, TranscriptDone, ResponseCreated}
    \/ (e.type = ItemCreated /\ e.role = "assistant")

\* C2: while isProcessingRAG is true, a provider event is dropped when its type
\* starts with "response." or it is conversation.item.created with the
\* assistant role, and is relayed otherwise.
C2_ProcessingSuppression ==
    [][(ev'.kind = "server" /\ isProcessingRAG)
        => ev'.frames = IF ResponseConstruction(ev'.event) \/ wsState[ev'.conn] # "open"
                        THEN <<>>
                        ELSE <<Stringify(ev'.event)>>]_vars

\* an assistant item was dropped on an open socket while processing
C2_Witness ==
    /\ ev.kind = "server"
    /\ ev.event.type = ItemCreated
    /\ ev.event.role = "assistant"
    /\ wsState[ev.conn] = "open"
    /\ isProcessingRAG
    /\ ev.frames = <<>>

\* C3: a client response.create handled while isRAGActiveThisTurn or
\* isProcessingRAG is true is not sent to the provider, be it handled on
\* arrival or in the replay of the queue.
C3_CreateDropped ==
    [][(ev'.kind \in {"message", "connected"} /\ (isRAGActiveThisTurn \/ isProcessingRAG))
        => /\ ClientCreates(upstream'[ev'.conn]) = ClientCreates(upstream[ev'.conn])
           /\ \A i \in 1..Len(NewCmds(ev'.conn)) : NewCmds(ev'.conn)[i].type # ResponseCreate]_vars

\* the replay handled a queued response.create while a turn was armed or processing
C3_Witness ==
    /\ ev.kind = "connected"
    /\ \E i \in 1..Len(ev.handled) : ev.handled[i].parses /\ ev.handled[i].type = ResponseCreate
    /\ (isRAGActiveThisTurn \/ isProcessingRAG)
    /\ upstream[ev.conn] = <<>>

C5_NoSecondSource ==
    [][/\ isRAGActiveThisTurn
          => \A c \in Conns : ClientCreates(upstream'[c]) = ClientCreates(upstream[c])
       /\ \A r \in DOMAIN runs :
            (runs[r].pc # "done" /\ ~runs[r].detached /\ ~runs'[r].detached)
            => ClientCreates(upstream'[runs[r].conn])
                 = ClientCreates(upstream[runs[r].conn])]_vars

\* the commands of the frames of q that parse, in the order of q
RECURSIVE Parsed(_)
Parsed(q) == IF q = <<>> THEN <<>>
             ELSE IF Head(q).parses
                  THEN <<Cmd("client", Head(q).type, "", Head(q).seq)>> \o Parsed(Tail(q))
                  ELSE Parsed(Tail(q))

\* C6: when the session becomes connected, every queued frame that parses is
\* sent to the provider once, in arrival order.
C6_QueueReplayed ==
    [][ev'.kind = "connected"
        => /\ NewCmds(ev'.conn) = Parsed(messageQueue[ev'.conn])
           /\ messageQueue'[ev'.conn] = <<>>]_vars

\* the injection of run r as far as the session allowed it: at most one item
\* and one response.create; the item, with the given text, whenever the session
\* was connected when the run's body finished; the response.create whenever
\* the session was still connected when the timer fired
InjectedOnce(r, text) ==
    /\ Len(Items(r)) <= 1
    /\ Len(Creates(r)) <= 1
    /\ \A i \in 1..Len(Items(r)) : Items(r)[i].text = text
    /\ Len(Creates(r)) = 1 => Len(Items(r)) = 1
    /\ runs[r].live[1] => /\ Len(Items(r)) = 1
                          /\ runs[r].pc = "done" => Len(runs[r].live) = 2
    /\ (Len(runs[r].live) = 2 /\ runs[r].live[2]) => Len(Creates(r)) = 1

\* the injection of a finished run r, complete
InjectedExactlyOnce(r, text) ==
    /\ Len(Items(r)) = 1
    /\ Len(Creates(r)) = 1
    /\ Items(r)[1].text = text

\* run r found no documents (performRAGSearch returned an empty list)
NoDocuments(r) == runs[r].search \in {"empty", "failed"}

\* C7 as stated: a run whose retrieval returns no documents injects exactly
\* once, with the no-results text, and isProcessingRAG is false when its body ends.
C7_Original ==
    \A r \in DOMAIN runs :
        NoDocuments(r) =>
            /\ (ev.kind = "search" /\ ev.run = r) => ~isProcessingRAG
            /\ runs[r].pc = "done" => InjectedExactlyOnce(r, NoResultsText)

\* C7 amended: a run whose retrieval returns no documents injects at most
\* once, with the no-results text, and exactly once when the session is
\* connected at both sends; isProcessingRAG is false when its body ends.
C7_NoResultsInjection ==
    \A r \in DOMAIN runs :
        NoDocuments(r) =>
            /\ (ev.kind = "search" /\ ev.run = r) => ~isProcessingRAG
            /\ InjectedOnce(r, NoResultsText)

\* a run without documents has injected the no-results text and asked for a response
C7_Witness ==
    \E r \in DOMAIN runs :
        /\ runs[r].search = "empty"
        /\ runs[r].pc = "done"
        /\ InjectedExactlyOnce(r, NoResultsText)

\* run r found documents and its completion call returned an answer
Answered(r) == runs[r].search = "found" /\ runs[r].completion = "ok"

\* C8 as stated: a run with documents and a successful completion injects
\* exactly once, with the completion's text, and isProcessingRAG is false afterwards.
C8_Original ==
    \A r \in DOMAIN runs :
        Answered(r) =>
            /\ (ev.kind = "completion" /\ ev.run = r) => ~isProcessingRAG
            /\ runs[r].pc = "done" => InjectedExactlyOnce(r, runs[r].content)

\* C8 amended: such a run injects at most once, with the completion's text,
\* and exactly once when the session is connected at both sends;
\* isProcessingRAG is false when its body ends.
C8_AnswerInjection ==
    \A r \in DOMAIN runs :
        Answered(r) =>
            /\ (ev.kind = "completion" /\ ev.run = r) => ~isProcessingRAG
            /\ InjectedOnce(r, runs[r].content)

\* a run has injected the completion's answer and asked for a response
C8_Witness ==
    \E r \in DOMAIN runs :
        /\ Answered(r)
        /\ runs[r].content = "answer"
        /\ runs[r].pc = "done"
        /\ InjectedExactlyOnce(r, "answer")

\* the completion call of run r failed
CompletionFailed(r) == runs[r].completion \in {"reject", "notok", "nochoices", "malformed"}

\* C9 as stated: a run whose completion call fails injects exactly once, with
\* the error utterance, leaves isProcessingRAG false and rejects nothing.
C9_Original ==
    \A r \in DOMAIN runs :
        CompletionFailed(r) =>
            /\ (ev.kind = "completion" /\ ev.run = r) => ~isProcessingRAG
            /\ ~runs[r].rejected
            /\ runs[r].pc = "done" => InjectedExactlyOnce(r, ErrorText)

\* C9 amended: such a run injects at most once, with the error utterance, and
\* exactly once when the session is connected at both sends; isProcessingRAG
\* is false when its body ends and its promise is never rejected.
C9_ErrorInjection ==
    \A r \in DOMAIN runs :
        CompletionFailed(r) =>
            /\ (ev.kind = "completion" /\ ev.run = r) => ~isProcessingRAG
            /\ ~runs[r].rejected
            /\ InjectedOnce(r, ErrorText)

\* a run whose completion returned a non-success status has spoken the error utterance
C9_Witness ==
    \E r \in DOMAIN runs :
        /\ runs[r].completion = "notok"
        /\ runs[r].pc = "done"
        /\ ~runs[r].rejected
        /\ InjectedExactlyOnce(r, ErrorText)

\* C10: a rag off command received while a turn is armed or processing clears
\* isRAGActiveThisTurn, isProcessingRAG and the transcript buffer and sets
\* ragMode false on every tracked socket.
C10_RagOffResets ==
    [][(ev'.kind = "off" /\ (isRAGActiveThisTurn \/ isProcessingRAG))
        => /\ ~isRAGActiveThisTurn'
           /\ ~isProcessingRAG'
           /\ userTranscriptForRAG' = Empty
           /\ \A c \in wsConnections : ~connectionStates'[c].ragMode]_vars

\* C11: every run of performRAGProcess ends without an exception leaving it
\* (its promise is never rejected, and no send of its injection throws into
\* the event loop) and clears isProcessingRAG in exactly one of its steps, the
\* one that ends its body, on every exit path.
C11_RunResolvesAndClearsOnce ==
    [][\A r \in DOMAIN runs :
         /\ ~runs'[r].rejected
         /\ (ev'.run = r /\ ev'.kind \in {"search", "completion"}
             /\ runs'[r].pc \in {"timer", "done"}) => ~isProcessingRAG'
         /\ (ev'.run = r /\ ev'.kind = "timer")
              => (isProcessingRAG' = isProcessingRAG /\ ~crashed')]_vars

\* C12: once client.connect() has been rejected for a socket, that socket is
\* closing or closed, no provider event of the pair is handled or relayed, and
\* nothing the client sent, before or after, is written to the provider.
C12_FailedConnectRelaysNothing ==
    \A c \in Conns :
        sess[c] = "failed" =>
            /\ wsState[c] \in {"closing", "closed"}
            /\ upstream[c] = <<>>
            /\ ~(ev.kind = "server" /\ ev.conn = c)
            /\ \A r \in DOMAIN runs : runs[r].conn # c

\* a frame that parses arrived after the failed connect, was queued and went nowhere
C12_Witness ==
    \E c \in Conns :
        /\ sess[c] = "failed"
        /\ ev.kind = "message"
        /\ ev.conn = c
        /\ messageQueue[c] # <<>>
        /\ messageQueue[c][1].parses
        /\ upstream[c] = <<>>

\* the turn that socket c armed, or that a run started for c is processing
TurnOf(c) ==
    \/ isRAGActiveThisTurn /\ scen.conn = c /\ ~scen.done
    \/ isProcessingRAG /\ runs # <<>> /\ runs[Len(runs)].conn = c

\* C13: when the client closes its socket, at whatever point (also while
\* client.connect() is pending), the ConnectionState is deleted and the turn
\* state of the pair is reset, and from then on the session is never connected
\* and nothing (no queued frame either) is written to its provider.
C13_ClientCloseTearsDown ==
    [][\A c \in Conns :
         /\ (ev'.kind = "wsClose" /\ ev'.conn = c /\ wsState[c] = "open")
              => /\ sess'[c] # "connected"
                 /\ ~connectionStates'[c].present
                 /\ c \notin wsConnections'
                 /\ TurnOf(c) => /\ ~isRAGActiveThisTurn'
                                 /\ ~isProcessingRAG'
                                 /\ userTranscriptForRAG' = Empty
         /\ wsState[c] = "closed"
              => /\ sess'[c] # "connected"
                 /\ upstream'[c] = upstream[c]
                 /\ ~connectionStates'[c].present]_vars

\* C14: once a transcript-done event has started a run, isProcessingRAG stays
\* true until that run ends its body or a rag off command arrives; the end of
\* an earlier run, which rag off detached, does not clear it, and while the
\* later run is in flight no response-construction event of its socket is relayed.
C14_ProcessingHeldUntilExit ==
    [][/\ (isProcessingRAG /\ ~isProcessingRAG')
            => \/ ev'.kind = "off"
               \/ ev'.kind \in {"search", "completion"} /\ ev'.run = Len(runs)
       /\ (/\ ev'.kind = "server"
           /\ ResponseConstruction(ev'.event)
           /\ \E r \in DOMAIN runs : /\ runs[r].conn = ev'.conn
                                     /\ runs[r].pc \in {"search", "complete"}
                                     /\ ~runs[r].detached)
            => ev'.frames = <<>>]_vars

\* the steps that belong to one pair: its provider events, its client frames
\* and queue replay, the steps of the orchestrator runs started for it
PairSteps == {"server", "message", "connected", "search", "completion", "timer"}

\* C15: a step of one ConnectionPair leaves unchanged the armed flag, the
\* processing flag and the transcript buffer that another tracked pair reads,
\* and so changes neither which provider events of that pair are relayed nor
\* whether its client response.create is forwarded.
C15_TurnStateIsolated ==
    [][\A c, d \in Conns :
         (c # d /\ d \in wsConnections /\ ev'.conn = c /\ ev'.kind \in PairSteps)
            => /\ isRAGActiveThisTurn' = isRAGActiveThisTurn
               /\ isProcessingRAG' = isProcessingRAG
               /\ userTranscriptForRAG' = userTranscriptForRAG
               /\ \A e \in ProviderEvents :
                    Blocked(isProcessingRAG', e) = Blocked(isProcessingRAG, e)
               /\ (isRAGActiveThisTurn' \/ isProcessingRAG')
                    = (isRAGActiveThisTurn \/ isProcessingRAG)]_vars

\* every conversation.item.create of run r precedes every response.create of
\* run r in the provider log
ItemFirst(r) ==
    LET up == upstream[runs[r].conn] IN
    \A i, j \in 1..Len(up) :
        (/\ up[i].src = "rag" /\ up[i].id = r /\ up[i].type = ItemCreate
         /\ up[j].src = "rag" /\ up[j].id = r /\ up[j].type = ResponseCreate) => i < j

\* C16 as stated: every finished run has sent exactly one
\* conversation.item.create and exactly one response.create, the item first.
C16_Original ==
    \A r \in DOMAIN runs :
        runs[r].pc = "done" =>
            /\ Len(Items(r)) = 1
            /\ Len(Creates(r)) = 1
            /\ ItemFirst(r)

\* C16 amended: a run sends at most one conversation.item.create and at most
\* one response.create, the item strictly first; the item is sent whenever the
\* session is connected when the body ends, the response.create whenever the
\* item was sent and the session is still connected when the timer fires.
C16_ItemBeforeResponse ==
    \A r \in DOMAIN runs :
        /\ Len(Items(r)) <= 1
        /\ Len(Creates(r)) <= 1
        /\ ItemFirst(r)
        /\ Len(Creates(r)) = 1 => Len(Items(r)) = 1
        /\ runs[r].pc \in {"search", "complete"} => (Items(r) = <<>> /\ Creates(r) = <<>>)
        /\ runs[r].pc \in {"timer", "done"} =>
              /\ Len(Items(r)) = (IF runs[r].live[1] THEN 1 ELSE 0)
              /\ runs[r].pc = "timer" => (runs[r].live[1] /\ Creates(r) = <<>>)
              /\ (runs[r].pc = "done" /\ runs[r].live[1])
                    => /\ Len(runs[r].live) = 2
                       /\ Len(Creates(r)) = (IF runs[r].live[2] THEN 1 ELSE 0)

\* the error utterance of a run was sent, a client command followed, and the
\* response.create of the run came last
C16_Witness ==
    \E r \in DOMAIN runs :
        /\ runs[r].pc = "done"
        /\ runs[r].completion = "nochoices"
        /\ Len(upstream[runs[r].conn]) = 3
        /\ upstream[runs[r].conn][1] = Cmd("rag", ItemCreate, ErrorText, r)
        /\ upstream[runs[r].conn][2].src = "client"
        /\ upstream[runs[r].conn][3] = Cmd("rag", ResponseCreate, "", r)

\* C17: on every exit path of a run isProcessingRAG is false once the body has
\* ended, so it is false when the run's conversation.item.create is with the
\* provider; the provider's response.* events that follow on that socket are
\* then relayed as the plain relay does, as long as no run is in its body and
\* no new turn is armed.
C17_ClearedBeforeInjection ==
    [][/\ \A c \in Conns : \A i \in 1..Len(NewCmds(c)) :
            (NewCmds(c)[i].src = "rag" /\ NewCmds(c)[i].type = ItemCreate)
                => ~isProcessingRAG'
       /\ (ev'.kind \in {"search", "completion"} /\ runs'[ev'.run].pc \in {"timer", "done"})
            => ~isProcessingRAG'
       /\ (/\ ev'.kind = "server"
           /\ StartsWithResponse(ev'.event.type)
           /\ ~isRAGActiveThisTurn
           /\ \E r \in DOMAIN runs : /\ runs[r].conn = ev'.conn
                                     /\ runs[r].pc \in {"timer", "done"}
                                     /\ Items(r) # <<>>
           /\ \A q \in DOMAIN runs : runs[q].pc \in {"timer", "done"})
            => ev'.frames = PlainRelay(wsState[ev'.conn], ev'.event)]_vars

\* a run has injected its turn, and the provider's response.created for it
\* was relayed to the client
C17_Witness ==
    /\ ev.kind = "server"
    /\ ev.event.type = ResponseCreated
    /\ ev.frames = <<Stringify(ev.event)>>
    /\ ~isProcessingRAG
    /\ \E r \in DOMAIN runs : /\ runs[r].conn = ev.conn
                              /\ runs[r].pc = "done"
                              /\ Len(Items(r)) = 1
                              /\ Len(Creates(r)) = 1

\* C18: a run whose search call fails (searchClient.search throws) leaves
\* isProcessingRAG false and injects the error utterance, the one spoken after
\* a failed completion, never the no-results text.
C18_SearchFailureSpeaksError ==
    \A r \in DOMAIN runs :
        runs[r].search = "failed" =>
            /\ (ev.kind = "search" /\ ev.run = r) => ~isProcessingRAG
            /\ \A i \in 1..Len(Items(r)) : /\ Items(r)[i].text = ErrorText
                                           /\ Items(r)[i].text # NoResultsText
            /\ runs[r].live[1] => Len(Items(r)) = 1

\* C19: a run whose completion call succeeds with an empty answer text is
\* handled as a failure: it injects the error utterance and never a
\* conversation item with empty text.
C19_EmptyAnswerSpeaksError ==
    \A r \in DOMAIN runs :
        (Answered(r) /\ runs[r].content = "") =>
            /\ (ev.kind = "completion" /\ ev.run = r) => ~isProcessingRAG
            /\ \A i \in 1..Len(Items(r)) : /\ Items(r)[i].text = ErrorText
                                           /\ Items(r)[i].text # ""
            /\ runs[r].live[1] => Len(Items(r)) = 1

\* C20: a transcript-done event handled while the turn is armed and the
\* transcript buffer is empty or holds only whitespace clears
\* isRAGActiveThisTurn, leaves isProcessingRAG false, starts no run and is
\* handed to ws.send as the plain relay does.
C20_EmptyTranscriptIdle ==
    [][(/\ ev'.kind = "server"
        /\ ev'.event.type = TranscriptDone
        /\ isRAGActiveThisTurn
        /\ Trim(userTranscriptForRAG) = Empty)
        => /\ ~isRAGActiveThisTurn'
           /\ ~isProcessingRAG'
           /\ runs' = runs
           /\ ev'.frames = PlainRelay(wsState[ev'.conn], ev'.event)]_vars

\* speech-started, a delta of one blank, transcript-done: no run, the turn is
\* idle again and the done event went to the client
C20_Witness ==
    /\ ev.kind = "server"
    /\ ev.event.type = TranscriptDone
    /\ scen.done
    /\ scen.deltas = << <<" ">> >>
    /\ userTranscriptForRAG = <<" ">>
    /\ ~isRAGActiveThisTurn
    /\ ~isProcessingRAG
    /\ runs = <<>>
    /\ ev.frames = <<Stringify(ev.event)>>

\* C21: when every search and completion call settles, a state with
\* isProcessingRAG true is always followed by a state with isProcessingRAG
\* false, whatever provider events, client frames and webhooks come in between.
C21_ProcessingEventuallyClears == isProcessingRAG ~> ~isProcessingRAG

\* C22: isRAGActiveThisTurn and isProcessingRAG are never both true; a
\* speech-started event arms the turn only when the socket's ragMode is true
\* and isProcessingRAG is false, and the transcript-done event that sets
\* isProcessingRAG clears isRAGActiveThisTurn in the same step.
C22_ArmedXorProcessing ==
    /\ [](~(isRAGActiveThisTurn /\ isProcessingRAG))
    /\ [][/\ (ev'.kind = "server" /\ ev'.event.type = SpeechStarted /\ isRAGActiveThisTurn')
               => (connectionStates[ev'.conn].ragMode /\ ~isProcessingRAG)
          /\ (~isProcessingRAG /\ isProcessingRAG')
               => /\ ev'.kind = "server"
                  /\ ev'.event.type = TranscriptDone
                  /\ isRAGActiveThisTurn
                  /\ ~isRAGActiveThisTurn']_vars

\* a speech-started event arrived on a socket with ragMode on while a run was
\* processing, and the turn was not armed
C22_Witness ==
    /\ ev.kind = "server"
    /\ ev.event.type = SpeechStarted
    /\ connectionStates[ev.conn].ragMode
    /\ isProcessingRAG
    /\ ~isRAGActiveThisTurn
    /\ ev.frames = <<Stringify(ev.event)>>

====
